---- MODULE Spec2Model ----
(***************************************************************************)
(* dmcr, the DIMACS model checker of splr (src/bin/dmcr.rs).               *)
(*                                                                         *)
(* The model follows main() and read_assignment() line by line.  A line   *)
(* of an assignment stream is a sequence of one-character strings, so     *)
(* that starts_with, strip_prefix, split_whitespace and parse::<i32> are  *)
(* computed as the code computes them.  The solver library behind         *)
(* Solver::build, inject_assignment and validate is not part of           *)
(* src/bin/dmcr.rs; it is modelled from sections 4.3 and 4.4 of the       *)
(* specification.                                                          *)
(***************************************************************************)
EXTENDS Integers, Sequences, FiniteSets, TLC

VARIABLES
    argv,         \* std::env::args(): the program name, then the arguments
    fs,           \* the paths that exist (Path::exists, File::open)
    fileLines,    \* the lines of the assignment file (when one exists)
    stdinLines,   \* the lines waiting on standard input
    problem,      \* the clauses of the CNF file, in storage order
    args_assign,  \* args.assign
    args_problem, \* args.problem
    no_color,     \* args.no_color
    pc,           \* position in main()
    reads,        \* number of read_line calls made on each source
    ret,          \* value returned by the last read_assignment call
    asg,          \* the solver's variable assignment
    found,        \* main's `found`
    from_file,    \* main's `from_file`
    out,          \* lines printed on standard output
    trace         \* the opens and library calls made, in order

vars == <<argv, fs, fileLines, stdinLines, problem, args_assign, args_problem,
          no_color, pc, reads, ret, asg, found, from_file, out, trace>>

----------------------------------------------------------------------------
(* Bounds of the model *)

\* longest assignment stream of the driver specification, in lines
MaxLines == 2
\* longest assignment stream of the parser specification, in lines
MaxStreamLen == 3
\* number of variables declared by the sample problems
NumVars == 3

\* i32::MAX and i32::MIN, the range of parse::<i32>
I32Max == 2147483647
I32Min == -I32Max - 1

----------------------------------------------------------------------------
(* Option<T> *)

None == <<>>
Some(x) == <<x>>
IsSome(o) == o # <<>>
Unwrap(o) == o[1]

----------------------------------------------------------------------------
(* Strings as sequences of characters *)

\* char::is_whitespace: the characters with the Unicode White_Space property,
\* U+0009..U+000D, U+0020, U+0085, U+00A0, U+1680, U+2000..U+200A, U+2028,
\* U+2029, U+202F, U+205F and U+3000
WhiteSpace ==
    {"\t", "\n", "<U+000B>", "\f", "\r", " ", "<U+0085>", "<U+00A0>",
     "<U+1680>", "<U+2000>", "<U+2001>", "<U+2002>", "<U+2003>", "<U+2004>",
     "<U+2005>", "<U+2006>", "<U+2007>", "<U+2008>", "<U+2009>", "<U+200A>",
     "<U+2028>", "<U+2029>", "<U+202F>", "<U+205F>", "<U+3000>"}

\* stands for a byte that cannot occur in UTF-8 text
BadByte == "<FF>"

\* BufRead::read_line yields Err on a line that is not valid UTF-8
ValidUtf8(line) == \A i \in 1..Len(line) : line[i] # BadByte

\* str::starts_with
StartsWith(s, p) == Len(p) <= Len(s) /\ SubSeq(s, 1, Len(p)) = p

\* str::strip_prefix
StripPrefix(s, p) ==
    IF StartsWith(s, p) THEN Some(SubSeq(s, Len(p) + 1, Len(s))) ELSE None

RECURSIVE SplitFrom(_, _, _, _)
SplitFrom(s, i, cur, acc) ==
    IF i > Len(s)
    THEN IF cur = <<>> THEN acc ELSE Append(acc, cur)
    ELSE IF s[i] \in WhiteSpace
         THEN SplitFrom(s, i + 1, <<>>, IF cur = <<>> THEN acc ELSE Append(acc, cur))
         ELSE SplitFrom(s, i + 1, Append(cur, s[i]), acc)

\* str::split_whitespace: the maximal runs of non-whitespace characters
split_whitespace(s) == SplitFrom(s, 1, <<>>, <<>>)

Digits == <<"0", "1", "2", "3", "4", "5", "6", "7", "8", "9">>
IsDigit(c) == \E d \in 1..10 : Digits[d] = c
DigitVal(c) == (CHOOSE d \in 1..10 : Digits[d] = c) - 1

\* Accumulates the digits s[i..] onto acc, towards +infinity (sign = 1) or
\* -infinity (sign = -1), as checked_mul / checked_add / checked_sub do.
RECURSIVE ParseDigits(_, _, _, _)
ParseDigits(s, i, sign, acc) ==
    IF i > Len(s) THEN [ok |-> TRUE, val |-> acc]
    ELSE IF ~IsDigit(s[i]) THEN [ok |-> FALSE, val |-> 0]
    ELSE LET d == DigitVal(s[i]) IN
         IF sign = 1
         THEN IF acc > I32Max \div 10 \/ acc * 10 > I32Max - d
              THEN [ok |-> FALSE, val |-> 0]
              ELSE ParseDigits(s, i + 1, sign, acc * 10 + d)
         ELSE IF acc < -(I32Max \div 10) \/ acc * 10 < I32Min + d
              THEN [ok |-> FALSE, val |-> 0]
              ELSE ParseDigits(s, i + 1, sign, acc * 10 - d)

\* str::parse::<i32>: an optional sign, then at least one decimal digit,
\* the value within i32
parse_i32(tok) ==
    IF tok = <<>> THEN [ok |-> FALSE, val |-> 0]
    ELSE IF tok[1] \in {"+", "-"}
         THEN IF Len(tok) = 1 THEN [ok |-> FALSE, val |-> 0]
              ELSE ParseDigits(tok, 2, IF tok[1] = "-" THEN -1 ELSE 1, 0)
         ELSE ParseDigits(tok, 1, 1, 0)

----------------------------------------------------------------------------
(* Lines of an assignment stream *)

\* the text of a string literal, one character per element
Chars_s_SATISFIABLE ==
    <<"s", " ", "S", "A", "T", "I", "S", "F", "I", "A", "B", "L", "E">>
Chars_s_UNSATISFIABLE ==
    <<"s", " ", "U", "N", "S", "A", "T", "I", "S", "F", "I", "A", "B", "L", "E">>

L_comment == <<"c", " ", "o", "k", "\n">>
L_sat     == Chars_s_SATISFIABLE \o <<"\n">>
L_unsat   == Chars_s_UNSATISFIABLE \o <<"\n">>
L_unknown == <<"s", " ", "U", "N", "K", "N", "O", "W", "N", "\n">>
L_v_1_m2_0 == <<"v", " ", "1", " ", "-", "2", " ", "0", "\n">>
L_v_m1_m2  == <<"v", " ", "-", "1", " ", "-", "2", "\n">>
L_v_2_0_x  == <<"v", " ", "2", " ", "0", " ", "x", "\n">>
L_v_0      == <<"v", " ", "0", "\n">>
L_v_1_m1_0 == <<"v", " ", "1", " ", "-", "1", " ", "0", "\n">>
L_v_1_x_0  == <<"v", " ", "1", " ", "x", " ", "0", "\n">>
L_blank    == <<"\n">>
L_v_nospace == <<"v", "\n">>
L_v_empty   == <<"v", " ", "\n">>
L_v_tab     == <<"v", "\t", "1", " ", "0", "\n">>
L_v_signs   == <<"v", " ", "+", "1", " ", " ", "-", "0", " ", "2", "\n">>
L_v_max     == <<"v", " ", "2", "1", "4", "7", "4", "8", "3", "6", "4", "7", " ",
                 "-", "2", "1", "4", "7", "4", "8", "3", "6", "4", "8", "\n">>
L_v_over    == <<"v", " ", "2", "1", "4", "7", "4", "8", "3", "6", "4", "8", " ",
                 "0", "\n">>
L_cv        == <<"c", "v", " ", "1", " ", "0", "\n">>
L_sat_more  == Chars_s_SATISFIABLE \o <<" ", "x", "\n">>
L_v_2_noeol == <<"v", " ", "2">>
L_bad_utf8  == <<"c", " ", BadByte, "\n">>
L_v_crlf    == <<"v", " ", "1", " ", "-", "2", " ", "0", "\r", "\n">>
L_v_spaces  == <<"v", " ", "<U+00A0>", "2", "<U+000B>", "\f", "-", "1",
                 "<U+3000>", "\r", "\n">>

\* the lines the driver specification draws its streams from
DriverLines ==
    {L_comment, L_sat, L_unsat, L_unknown, L_v_1_m2_0, L_v_m1_m2, L_v_2_0_x,
     L_v_0, L_v_empty, L_v_1_m1_0, L_v_1_x_0, L_blank, L_bad_utf8, L_v_crlf}

\* the lines the parser specification draws its streams from
ParserLines ==
    {L_comment, L_sat, L_unsat, L_unknown, L_v_1_m2_0, L_v_m1_m2, L_v_2_0_x,
     L_v_0, L_v_1_x_0, L_blank, L_v_nospace, L_v_tab, L_v_signs,
     L_v_max, L_v_over, L_cv, L_sat_more, L_v_2_noeol, L_bad_utf8,
     L_v_crlf, L_v_spaces}

\* all streams of at most n lines drawn from lines; only the last line of a
\* stream can lack its newline
Streams(lines, n) ==
    {s \in UNION {[1..k -> lines] : k \in 0..n} :
        \A i \in 1..(Len(s) - 1) : s[i][Len(s[i])] = "\n"}

----------------------------------------------------------------------------
(* Standard output *)

\* argv[0]
ProgPath == "dmcr"
CnfPath == "p.cnf"
MissingPath == "missing.cnf"
ExplicitPath == "a.out"
\* format!("ans_{}", file_name(problem)) for the problem p.cnf
DefaultPath == "ans_p.cnf"

\* (red, green, blue): RESET under --no-color
Colour(c) == IF no_color THEN "RESET" ELSE c

Msg(k, colour, path, clause) ==
    [k |-> k, colour |-> colour, path |-> path, clause |-> clause]
\* "{ABOUT}\n{HELP_MESSAGE}"
MsgHelp == Msg("help", "", "", <<>>)
\* env!("CARGO_PKG_VERSION")
MsgVersion == Msg("version", "", "", <<>>)
\* "{cnf} seems an unsatisfiable problem. I can't handle it."
MsgUnsatClaimed == Msg("unsat_claimed", "", "", <<>>)
\* "{asg} seems an illegal format file."
MsgIllegalFormat(path) == Msg("illegal_format", "", path, <<>>)
\* "{blue}{problem} seems an unsat problem but no proof."
MsgConflict == Msg("conflict", Colour("BLUE"), "", <<>>)
\* "There's no assign file."
MsgNoAssignFile == Msg("no_assign_file", "", "", <<>>)
\* "{red}An invalid assignment set for {problem} due to {v:?}."
MsgInvalid(clause) == Msg("invalid", Colour("RED"), "", clause)
\* "{green}A valid assignment set for {problem} is found in {path}"
MsgValidFile(path) == Msg("valid_file", Colour("GREEN"), path, <<>>)
\* "{green}A valid assignment set for {problem}."
MsgValid == Msg("valid", Colour("GREEN"), "", <<>>)

----------------------------------------------------------------------------
(* TargetOpts::inject_from_args *)

\* the characters of the command-line words the model uses
Chars(w) ==
    CASE w = "-h" -> <<"-", "h">>
      [] w = "-V" -> <<"-", "V">>
      [] w = "-C" -> <<"-", "C">>
      [] w = "-a" -> <<"-", "a">>
      [] w = "-x" -> <<"-", "x">>
      [] w = "--help" -> <<"-", "-", "h", "e", "l", "p">>
      [] w = "--version" -> <<"-", "-", "v", "e", "r", "s", "i", "o", "n">>
      [] w = "--no-color" -> <<"-", "-", "n", "o", "-", "c", "o", "l", "o", "r">>
      [] w = "--assign" -> <<"-", "-", "a", "s", "s", "i", "g", "n">>
      [] w = "--bogus" -> <<"-", "-", "b", "o", "g", "u", "s">>
      [] w = ProgPath -> <<"d", "m", "c", "r">>
      [] w = CnfPath -> <<"p", ".", "c", "n", "f">>
      [] w = MissingPath -> <<"m", "i", "s", "s", "i", "n", "g", ".", "c", "n", "f">>
      [] w = ExplicitPath -> <<"a", ".", "o", "u", "t">>

\* TargetOpts::default(), with the problem taken from the last argument
\* when that path exists
TargetOpts(p) ==
    [assign |-> None, problem |-> p, no_color |-> FALSE, help |-> FALSE,
     version |-> FALSE, status |-> "ok"]

\* the `while let Some(arg) = iter.next()` loop, from argument i on
RECURSIVE ArgLoop(_, _, _, _)
ArgLoop(av, i, a, files) ==
    IF i > Len(av) THEN a
    ELSE
    LET arg == av[i]
        long == StripPrefix(Chars(arg), <<"-", "-">>)
        short == StripPrefix(Chars(arg), <<"-">>)
        name == IF IsSome(long) THEN Unwrap(long) ELSE Unwrap(short)
    IN
    IF IsSome(long)
    THEN IF name = <<"n", "o", "-", "c", "o", "l", "o", "r">>
         THEN ArgLoop(av, i + 1, [a EXCEPT !.no_color = TRUE], files)
         ELSE IF name = <<"h", "e", "l", "p">>
         THEN ArgLoop(av, i + 1, [a EXCEPT !.help = TRUE], files)
         ELSE IF name = <<"v", "e", "r", "s", "i", "o", "n">>
         THEN ArgLoop(av, i + 1, [a EXCEPT !.version = TRUE], files)
         ELSE IF name = <<"a", "s", "s", "i", "g", "n">>
         THEN IF i + 1 > Len(av)
              THEN [a EXCEPT !.status = "panic"]
              ELSE ArgLoop(av, i + 2, [a EXCEPT !.assign = Some(av[i + 1])], files)
         ELSE ArgLoop(av, i + 1, a, files)
    ELSE IF IsSome(short)
    THEN IF name = <<"C">>
         THEN ArgLoop(av, i + 1, [a EXCEPT !.no_color = TRUE], files)
         ELSE IF name = <<"h">>
         THEN ArgLoop(av, i + 1, [a EXCEPT !.help = TRUE], files)
         ELSE IF name = <<"V">>
         THEN ArgLoop(av, i + 1, [a EXCEPT !.version = TRUE], files)
         ELSE IF name = <<"a">>
         THEN IF i + 1 > Len(av)
              THEN [a EXCEPT !.status = "panic"]
              ELSE ArgLoop(av, i + 2, [a EXCEPT !.assign = Some(av[i + 1])], files)
         ELSE ArgLoop(av, i + 1, a, files)
    ELSE IF a.problem \notin files \/ a.problem # arg
         THEN [a EXCEPT !.status = "panic"]
         ELSE ArgLoop(av, i + 1, a, files)

\* inject_from_args: the options it leaves in TargetOpts, and whether it
\* returns ("ok"), panics, or prints the help or the version and exits
inject_from_args(av, files) ==
    LET last == av[Len(av)]
        a == ArgLoop(av, 2, TargetOpts(IF last \in files THEN last ELSE ""), files)
    IN  IF a.status = "panic" THEN a
        ELSE IF a.help THEN [a EXCEPT !.status = "help"]
        ELSE IF a.version THEN [a EXCEPT !.status = "version"]
        ELSE a

----------------------------------------------------------------------------
(* read_assignment *)

Continue == [k |-> "continue", ret |-> None, printed |-> <<>>]
Return(r, printed) == [k |-> "return", ret |-> r, printed |-> printed]
Panic == [k |-> "panic", ret |-> None, printed |-> <<>>]

\* ParseTokens with the `Ok(0) => break` arm lost: a 0 is skipped
RECURSIVE ParseTokens_no_break(_, _, _)
ParseTokens_no_break(toks, i, v) ==
    IF i > Len(toks) THEN Return(Some(v), <<>>)
    ELSE LET p == parse_i32(toks[i]) IN
         IF ~p.ok THEN Panic
         ELSE ParseTokens_no_break(toks, i + 1,
                                   IF p.val = 0 THEN v ELSE Append(v, p.val))

\* the loop over stripped.split_whitespace(): stop at the first 0, push any
\* other integer, panic on a token that is no i32
RECURSIVE ParseTokens(_, _, _)
ParseTokens(toks, i, v) ==
    IF i > Len(toks) THEN Return(Some(v), <<>>)
    ELSE LET p == parse_i32(toks[i]) IN
         IF ~p.ok THEN Panic
         ELSE IF p.val = 0 THEN Return(Some(v), <<>>)
         ELSE ParseTokens(toks, i + 1, Append(v, p.val))

\* ValueLine with the trailing panic replaced by an empty result
ValueLine_lenient(buf) ==
    LET stripped == StripPrefix(buf, <<"v", " ">>) IN
    IF IsSome(stripped)
    THEN ParseTokens(split_whitespace(Unwrap(stripped)), 1, <<>>)
    ELSE Return(Some(<<>>), <<>>)

\* `if let Some(stripped) = buf.strip_prefix("v ") {...}` and the panic after it
ValueLine(buf) ==
    LET stripped == StripPrefix(buf, <<"v", " ">>) IN
    IF IsSome(stripped)
    THEN ParseTokens(split_whitespace(Unwrap(stripped)), 1, <<>>)
    ELSE Panic

\* StatusLine with `s UNSATISFIABLE` treated like `s SATISFIABLE`
StatusLine_unsat_skipped(buf, assign) ==
    IF StartsWith(buf, Chars_s_SATISFIABLE) THEN Continue
    ELSE IF StartsWith(buf, Chars_s_UNSATISFIABLE) THEN Continue
    ELSE IF IsSome(assign)
         THEN Return(None, <<MsgIllegalFormat(Unwrap(assign))>>)
    ELSE Panic

\* StatusLine returning an empty vector, not None, after its message
StatusLine_returns_empty(buf, assign) ==
    IF StartsWith(buf, Chars_s_SATISFIABLE) THEN Continue
    ELSE IF StartsWith(buf, Chars_s_UNSATISFIABLE)
         THEN Return(Some(<<>>), <<MsgUnsatClaimed>>)
    ELSE IF IsSome(assign)
         THEN Return(Some(<<>>), <<MsgIllegalFormat(Unwrap(assign))>>)
    ELSE Panic

\* `if buf.starts_with("s ") {...}` for a buf that starts with "s "
StatusLine(buf, assign) ==
    IF StartsWith(buf, Chars_s_SATISFIABLE) THEN Continue
    ELSE IF StartsWith(buf, Chars_s_UNSATISFIABLE)
         THEN Return(None, <<MsgUnsatClaimed>>)
    ELSE IF IsSome(assign)
         THEN Return(None, <<MsgIllegalFormat(Unwrap(assign))>>)
    ELSE ValueLine(<<>>)

\* the body of `Ok(_) => {...}`: what one line does to the loop
LineOutcome(buf, assign) ==
    IF StartsWith(buf, <<"c">>) THEN Continue
    ELSE IF StartsWith(buf, <<"s", " ">>) THEN StatusLine(buf, assign)
    ELSE ValueLine(buf)

\* one iteration of the loop on a stream of which n lines were consumed:
\* read_line yields Ok(0) at the end of the stream, Err on invalid UTF-8
IterOutcome(stream, n, assign) ==
    IF n >= Len(stream) THEN Return(Some(<<>>), <<>>)
    ELSE IF ~ValidUtf8(stream[n + 1]) THEN Panic
    ELSE LineOutcome(stream[n + 1], assign)

----------------------------------------------------------------------------
(* The solver library: Solver::build, inject_assignment, validate *)

Var(l) == IF l < 0 THEN -l ELSE l
Sign(l) == IF l < 0 THEN -1 ELSE 1

\* the sample problems: scenarios S1..S6 of the specification, the problem
\* without clauses, and problems holding an empty clause
P_S1 == << <<1, 2>>, <<-1, -2>> >>
P_S3 == << <<1, 2, 3>> >>
P_S4 == << <<1>>, <<-1>> >>
P_S5 == << <<1>> >>
P_S6 == << <<1, -2>> >>
P_none == << >>
P_empty_clause == << <<1, -2>>, << >>, <<2>> >>
P_three == << <<-1, 2>>, <<1, 2>>, <<-2, 3>> >>
Problems == {P_S1, P_S3, P_S4, P_S5, P_S6, P_none, P_empty_clause, P_three}

\* Solver::build(&config) loads a DIMACS CNF file; any other path fails
BuildLoads(path) == path = CnfPath

\* the text of the CNF file: the `p cnf N M` header, then one line a clause
LitChars(l) == IF l < 0 THEN <<"-", Digits[1 - l]>> ELSE <<Digits[l + 1]>>
RECURSIVE ClauseChars(_, _)
ClauseChars(c, i) ==
    IF i > Len(c) THEN <<"0", "\n">>
    ELSE LitChars(c[i]) \o <<" ">> \o ClauseChars(c, i + 1)
CnfText(clauses) ==
    << <<"p", " ", "c", "n", "f", " ", Digits[NumVars + 1], " ",
         Digits[Len(clauses) + 1], "\n">> >>
    \o [i \in 1..Len(clauses) |-> ClauseChars(clauses[i], 1)]

\* the solver after Solver::build: no variable has a value
Solver_build == [v \in 1..NumVars |-> 0]

\* some unit clause of the problem is falsified under a
UnitFalsified(clauses, a) ==
    \E i \in 1..Len(clauses) :
        Len(clauses[i]) = 1 /\ a[Var(clauses[i][1])] = -Sign(clauses[i][1])

RECURSIVE inject_from(_, _, _, _)
inject_from(clauses, a, vec, i) ==
    IF i > Len(vec) THEN [ok |-> TRUE, asg |-> a]
    ELSE LET l == vec[i]
             b == [a EXCEPT ![Var(l)] = Sign(l)]
         IN  IF a[Var(l)] = -Sign(l) \/ UnitFalsified(clauses, b)
             THEN [ok |-> FALSE, asg |-> a]
             ELSE inject_from(clauses, b, vec, i + 1)

\* inject_assignment(literals) -> Ok | Err: each literal sets its variable;
\* Err on a variable given both polarities or a falsified unit clause
inject_assignment(clauses, a, vec) == inject_from(clauses, a, vec, 1)

\* a literal of the clause has the value of its sign
Satisfied(clause, a) ==
    \E j \in 1..Len(clause) : a[Var(clause[j])] = Sign(clause[j])

RECURSIVE validate_from(_, _, _)
validate_from(clauses, a, i) ==
    IF i > Len(clauses) THEN None
    ELSE IF ~Satisfied(clauses[i], a) THEN Some(clauses[i])
    ELSE validate_from(clauses, a, i + 1)

\* validate() -> None | Some(clause): the first clause, in storage order,
\* that the assignment does not satisfy
validate(clauses, a) == validate_from(clauses, a, 1)

----------------------------------------------------------------------------
(* main *)

Event(op, arg) == [op |-> op, arg |-> arg]

\* the streams the driver specification tries on standard input while an
\* assignment file opens
StdinProbes == {<<>>, <<L_v_1_m2_0>>}

\* the command lines the driver specification runs
Argvs ==
    {<<ProgPath, CnfPath>>,
     <<ProgPath, "-a", ExplicitPath, CnfPath>>,
     <<ProgPath, "--no-color", "--assign", ExplicitPath, CnfPath>>,
     <<ProgPath, "-C", "-x", "--bogus", CnfPath>>,
     <<ProgPath, "-a", CnfPath>>,
     <<ProgPath, "-h", CnfPath>>,
     <<ProgPath, "--help">>,
     <<ProgPath, "-C", "-V", CnfPath>>,
     <<ProgPath, "--version", "-h", CnfPath>>,
     <<ProgPath, "-C", MissingPath>>,
     <<ProgPath, CnfPath, "-a", ExplicitPath>>,
     <<ProgPath, "-a">>,
     <<ProgPath, "--assign">>,
     <<ProgPath, ExplicitPath>>,
     <<ProgPath, "-C">>,
     <<ProgPath>>}

\* the path main hands to File::open
Target(a) == IF IsSome(a) THEN Unwrap(a) ELSE DefaultPath

\* the run gets as far as File::open
ReachesOpen(av, files) ==
    inject_from_args(av, files).status = "ok"
        /\ BuildLoads(inject_from_args(av, files).problem)

\* the path of that File::open
TargetOf(av, files) == Target(inject_from_args(av, files).assign)

Init ==
    /\ argv \in Argvs
    /\ fs \in {{ProgPath, CnfPath} \cup x : x \in SUBSET {ExplicitPath, DefaultPath}}
    /\ problem \in IF ReachesOpen(argv, fs) THEN Problems ELSE {P_S1}
    /\ fileLines \in
           IF ReachesOpen(argv, fs) /\ TargetOf(argv, fs) \in fs
           THEN IF TargetOf(argv, fs) = CnfPath
                THEN {CnfText(problem)}
                ELSE Streams(DriverLines, MaxLines)
           ELSE {<<>>}
    /\ stdinLines \in
           IF ReachesOpen(argv, fs) /\ TargetOf(argv, fs) \notin fs
           THEN Streams(DriverLines, MaxLines)
           ELSE StdinProbes
    /\ args_assign = None
    /\ args_problem = ""
    /\ no_color = FALSE
    /\ pc = "inject_from_args"
    /\ reads = [file |-> 0, stdin |-> 0]
    /\ ret = None
    /\ asg = Solver_build
    /\ found = FALSE
    /\ from_file = TRUE
    /\ out = <<>>
    /\ trace = <<>>

\* `args.inject_from_args()`: sets the options; a help or version request
\* prints its text and exits with code 0, a bad argument panics
InjectFromArgs ==
    LET a == inject_from_args(argv, fs) IN
    /\ pc = "inject_from_args"
    /\ args_assign' = a.assign
    /\ args_problem' = a.problem
    /\ no_color' = a.no_color
    /\ out' = CASE a.status = "help" -> Append(out, MsgHelp)
                [] a.status = "version" -> Append(out, MsgVersion)
                [] OTHER -> out
    /\ pc' = CASE a.status = "ok" -> "build"
               [] a.status = "panic" -> "panicked"
               [] OTHER -> "exit"
    /\ UNCHANGED <<argv, fs, fileLines, stdinLines, problem, reads, ret, asg,
                   found, from_file, trace>>

\* `Solver::build(&config).expect("failed to load")`
SolverBuild ==
    /\ pc = "build"
    /\ asg' = Solver_build
    /\ pc' = IF BuildLoads(args_problem) THEN "default_assign" ELSE "panicked"
    /\ UNCHANGED <<argv, fs, fileLines, stdinLines, problem, args_assign,
                   args_problem, no_color, reads, ret, found, from_file, out,
                   trace>>

\* DefaultedAssign overwriting an explicit -a path with the default path
DefaultedAssign_always(a) == Some(DefaultPath)

\* `if args.assign == None { args.assign = Some("ans_<file name>") }`
DefaultedAssign(a) == IF a = None THEN Some(DefaultPath) ELSE a

DefaultAssign ==
    /\ pc = "default_assign"
    /\ args_assign' = DefaultedAssign(args_assign)
    /\ pc' = "open"
    /\ UNCHANGED <<argv, fs, fileLines, stdinLines, problem, args_problem,
                   no_color, reads, ret, asg, found, from_file, out, trace>>

\* AfterFileBlock without the `if !found` guard on the standard input block
AfterFileBlock_always_stdin(f) == "read_stdin"

\* where main goes once the `if let Some(f) = &args.assign` block is over:
\* `if !found` reads standard input, otherwise on to the verdict
AfterFileBlock(f) == IF ~f THEN "read_stdin" ELSE "verdict"

\* `if let Some(f) = &args.assign { if let Ok(d) = File::open(f.as_path()) {`
OpenAssign ==
    /\ pc = "open"
    /\ IF IsSome(args_assign)
       THEN /\ trace' = Append(trace, Event("open", Unwrap(args_assign)))
            /\ pc' = IF Unwrap(args_assign) \in fs
                     THEN "read_file" ELSE AfterFileBlock(found)
       ELSE /\ trace' = trace
            /\ pc' = AfterFileBlock(found)
    /\ UNCHANGED <<argv, fs, fileLines, stdinLines, problem, args_assign,
                   args_problem, no_color,
                   reads, ret, asg, found, from_file, out>>

\* one iteration of read_assignment's loop on source src
ReadIter(src, stream, returned) ==
    LET o == IterOutcome(stream, reads[src], args_assign) IN
    /\ reads' = [reads EXCEPT ![src] = @ + 1]
    /\ trace' = Append(trace, Event("read_line", src))
    /\ out' = out \o o.printed
    /\ ret' = IF o.k = "return" THEN o.ret ELSE ret
    /\ pc' = CASE o.k = "continue" -> pc
               [] o.k = "return" -> returned
               [] o.k = "panic" -> "panicked"
    /\ UNCHANGED <<argv, fs, fileLines, stdinLines, problem, args_assign,
                   args_problem, no_color,
                   asg, found, from_file>>

\* read_assignment(&mut BufReader::new(d), cnf, &args.assign)
ReadFile == pc = "read_file" /\ ReadIter("file", fileLines, "bind_file")

\* read_assignment(&mut BufReader::new(stdin()), cnf, &args.assign)
ReadStdin == pc = "read_stdin" /\ ReadIter("stdin", stdinLines, "bind_stdin")

\* Bind without the `return` after the conflict line
Bind_conflict_continues(r, fromStdin) ==
    IF IsSome(r)
    THEN LET res == inject_assignment(problem, asg, Unwrap(r)) IN
         /\ trace' = Append(trace, Event("inject", IF res.ok THEN "Ok" ELSE "Err"))
         /\ asg' = res.asg
         /\ out' = IF res.ok THEN out ELSE Append(out, MsgConflict)
         /\ found' = TRUE
         /\ from_file' = IF fromStdin THEN FALSE ELSE from_file
         /\ pc' = "verdict"
    ELSE /\ pc' = "exit"
         /\ UNCHANGED <<trace, asg, out, found, from_file>>

\* what main does with the value read_assignment returned: None returns,
\* Some(vec) is injected, an Err prints the conflict line and returns
Bind(r, fromStdin) ==
    IF IsSome(r)
    THEN LET res == inject_assignment(problem, asg, Unwrap(r)) IN
         /\ trace' = Append(trace, Event("inject", IF res.ok THEN "Ok" ELSE "Err"))
         /\ asg' = res.asg
         /\ IF ~res.ok
            THEN /\ out' = Append(out, MsgConflict)
                 /\ pc' = "exit"
                 /\ UNCHANGED <<found, from_file>>
            ELSE /\ out' = out
                 /\ found' = TRUE
                 /\ from_file' = IF fromStdin THEN FALSE ELSE from_file
                 /\ pc' = IF fromStdin THEN "verdict" ELSE AfterFileBlock(found')
    ELSE /\ pc' = "exit"
         /\ UNCHANGED <<trace, asg, out, found, from_file>>

BindFile ==
    /\ pc = "bind_file"
    /\ Bind(ret, FALSE)
    /\ UNCHANGED <<argv, fs, fileLines, stdinLines, problem, args_assign,
                   args_problem, no_color,
                   reads, ret>>

BindStdin ==
    /\ pc = "bind_stdin"
    /\ Bind(ret, TRUE)
    /\ UNCHANGED <<argv, fs, fileLines, stdinLines, problem, args_assign,
                   args_problem, no_color,
                   reads, ret>>

\* VerdictLine with the Some and None arms exchanged
VerdictLine_inverted(v, ff, assign) ==
    IF ~IsSome(v) THEN MsgInvalid(<<>>)
    ELSE IF ff THEN MsgValidFile(Unwrap(assign))
    ELSE MsgValid

\* the arms of `match s.validate()`
VerdictLine(v, ff, assign) ==
    IF IsSome(v) THEN MsgInvalid(Unwrap(v))
    ELSE IF ff THEN MsgValidFile(Unwrap(assign))
    ELSE MsgValid

\* `if !found { println!("There's no assign file."); return; }` and the match
Verdict ==
    /\ pc = "verdict"
    /\ IF ~found
       THEN /\ out' = Append(out, MsgNoAssignFile)
            /\ trace' = trace
       ELSE /\ out' = Append(out, VerdictLine(validate(problem, asg),
                                              from_file, args_assign))
            /\ trace' = Append(trace, Event("validate", ""))
    /\ pc' = "exit"
    /\ UNCHANGED <<argv, fs, fileLines, stdinLines, problem, args_assign,
                   args_problem, no_color,
                   reads, ret, asg, found, from_file>>

Next ==
    \/ InjectFromArgs
    \/ SolverBuild
    \/ DefaultAssign
    \/ OpenAssign
    \/ ReadFile
    \/ BindFile
    \/ ReadStdin
    \/ BindStdin
    \/ Verdict

Spec == Init /\ [][Next]_vars

----------------------------------------------------------------------------
(* read_assignment on its own: any stream, with and without an assign path *)

InitParser ==
    /\ argv = <<ProgPath>>
    /\ fs = {}
    /\ fileLines = <<>>
    /\ stdinLines \in Streams(ParserLines, MaxStreamLen)
    /\ problem = P_none
    /\ args_assign \in {None, Some(ExplicitPath)}
    /\ args_problem = CnfPath
    /\ no_color \in BOOLEAN
    /\ pc = "read_assignment"
    /\ reads = [file |-> 0, stdin |-> 0]
    /\ ret = None
    /\ asg = Solver_build
    /\ found = FALSE
    /\ from_file = TRUE
    /\ out = <<>>
    /\ trace = <<>>

ReadAssignment ==
    pc = "read_assignment" /\ ReadIter("stdin", stdinLines, "returned")

NextParser == ReadAssignment

SpecParser == InitParser /\ [][NextParser]_vars

----------------------------------------------------------------------------
(* Vocabulary of the properties *)

Terminal == pc \in {"exit", "panicked"}
OpsAt(op) == {i \in DOMAIN trace : trace[i].op = op}
Called(op) == OpsAt(op) # {}
Printed(k) == \E i \in DOMAIN out : out[i].k = k
StreamOf(src) == IF src = "file" THEN fileLines ELSE stdinLines
Sources == {"file", "stdin"}
\* the open that succeeded, if any
OpenedOk == \E i \in OpsAt("open") : trace[i].arg \in fs
\* the -a/--assign option of the command line, None without one
OptA == inject_from_args(argv, fs).assign

IsComment(l) == ValidUtf8(l) /\ StartsWith(l, <<"c">>)
IsSat(l) == ValidUtf8(l) /\ StartsWith(l, Chars_s_SATISFIABLE)
IsUnsat(l) == ValidUtf8(l) /\ StartsWith(l, Chars_s_UNSATISFIABLE)
IsStatus(l) == ValidUtf8(l) /\ StartsWith(l, <<"s", " ">>)
IsValue(l) == ValidUtf8(l) /\ StartsWith(l, <<"v", " ">>)
\* the tokens of a `v ` line
TokensOf(l) == split_whitespace(SubSeq(l, 3, Len(l)))
IsInt(tok) == parse_i32(tok).ok
IsZero(tok) == parse_i32(tok).ok /\ parse_i32(tok).val = 0
\* how many tokens come before the first 0 token (all of them without a 0)
ZeroFree(toks) ==
    LET z == {i \in 1..Len(toks) : IsZero(toks[i])} IN
    IF z = {} THEN Len(toks) ELSE (CHOOSE i \in z : \A j \in z : i <= j) - 1
\* the values of the tokens before the first 0 token
BeforeZero(toks) == [i \in 1..ZeroFree(toks) |-> parse_i32(toks[i]).val]
\* the line the reader of src stopped at, when it stopped at a line
StoppedAt(src) == reads[src] \in 1..Len(StreamOf(src))
LastLine(src) == StreamOf(src)[reads[src]]
\* the lines before line i are comments and `s SATISFIABLE` lines
Skipped(stream, i) == \A j \in 1..(i - 1) : IsComment(stream[j]) \/ IsSat(stream[j])

----------------------------------------------------------------------------
(* C1 *)

RECURSIVE AllVTokens(_, _)
AllVTokens(stream, i) ==
    IF i > Len(stream) THEN <<>>
    ELSE (IF IsValue(stream[i]) THEN TokensOf(stream[i]) ELSE <<>>)
         \o AllVTokens(stream, i + 1)

\* the stream holds only comment lines and `v ` lines of integer tokens
CommentsAndValues(stream) ==
    \A i \in 1..Len(stream) :
        \/ IsComment(stream[i])
        \/ IsValue(stream[i]) /\ \A t \in 1..Len(TokensOf(stream[i])) :
                                     IsInt(TokensOf(stream[i])[t])

\* C1: on a stream of comment lines and `v ` lines, read_assignment returns
\* the non-zero tokens of all the `v ` lines, in stream order, up to the
\* first 0 token, also when the `v` block spans several lines.
C1_ParserRobustness ==
    (pc = "returned" /\ CommentsAndValues(stdinLines))
        => ret = Some(BeforeZero(AllVTokens(stdinLines, 1)))

----------------------------------------------------------------------------
(* C2 *)

\* the literals bound by inject_assignment: those read_assignment returned
Bound == {Unwrap(ret)[i] : i \in 1..Len(Unwrap(ret))}
\* the clause has a literal whose variable is assigned the literal's polarity
HasTrueLiteral(clause) == \E j \in 1..Len(clause) : clause[j] \in Bound

\* C2: the valid verdict is printed only if every clause has a literal
\* assigned its polarity; the invalid verdict names a clause of the problem
\* that has none, and it is the first such clause in storage order.
C2_VerdictSound ==
    \A m \in DOMAIN out :
        /\ out[m].k \in {"valid", "valid_file"}
              => \A i \in 1..Len(problem) : HasTrueLiteral(problem[i])
        /\ out[m].k = "invalid"
              => \E i \in 1..Len(problem) :
                     /\ problem[i] = out[m].clause
                     /\ ~HasTrueLiteral(problem[i])
                     /\ \A h \in 1..(i - 1) : HasTrueLiteral(problem[h])

\* an invalid verdict that names the second clause, the first one satisfied
C2_Witness ==
    /\ pc = "exit"
    /\ Len(problem) >= 2
    /\ out = <<MsgInvalid(problem[2])>>
    /\ problem[1] # problem[2]
    /\ HasTrueLiteral(problem[1])

----------------------------------------------------------------------------
(* C3 *)

\* the reader of src has read an `s UNSATISFIABLE` line that only comment
\* and `s SATISFIABLE` lines precede
ReadUnsat(src) ==
    \E i \in 1..Len(StreamOf(src)) :
        /\ i <= reads[src]
        /\ IsUnsat(StreamOf(src)[i])
        /\ Skipped(StreamOf(src), i)

\* C3: once the parser has read `s UNSATISFIABLE` ahead of any `v ` line,
\* the only line printed is the unsat-claimed one, read_assignment returned
\* None, inject_assignment and validate are not called, no other source is
\* read, and main returns normally.
C3_UnsatClaimed ==
    \A src \in Sources :
        ReadUnsat(src) =>
            /\ out = <<MsgUnsatClaimed>>
            /\ ret = None
            /\ pc \in {"bind_file", "bind_stdin", "exit"}
            /\ ~Called("inject") /\ ~Called("validate")
            /\ \A other \in Sources \ {src} : reads[other] = 0

\* `s SATISFIABLE` then `s UNSATISFIABLE` in an opened file, run over
C3_Witness ==
    /\ pc = "exit"
    /\ Len(fileLines) = 2 /\ IsSat(fileLines[1]) /\ IsUnsat(fileLines[2])
    /\ reads["file"] = 2
    /\ out = <<MsgUnsatClaimed>>

----------------------------------------------------------------------------
(* C4 *)

\* no file was opened and standard input ended without a `v ` line
NoInput ==
    /\ ~OpenedOk
    /\ reads["stdin"] = Len(stdinLines) + 1
    /\ \A i \in 1..Len(stdinLines) : ~IsValue(stdinLines[i])

\* C4: without an assignment file and with standard input ending before any
\* `v ` line, the run reports "There's no assign file." and ends with no
\* verdict: inject_assignment and validate are not called.
C4_NoInputReported ==
    (pc = "exit" /\ NoInput) =>
        /\ out = <<MsgNoAssignFile>>
        /\ ~Called("inject") /\ ~Called("validate")

----------------------------------------------------------------------------
(* C5 *)

\* C5: inject_assignment and validate are each called at most once,
\* validate only after inject_assignment returned Ok; after an Err the
\* conflict line is the only line printed, main has returned, and validate
\* is never called; the conflict and invalid verdicts exclude each other.
C5_BindThenValidate ==
    /\ Cardinality(OpsAt("inject")) <= 1
    /\ Cardinality(OpsAt("validate")) <= 1
    /\ \A j \in OpsAt("validate") :
           \E i \in OpsAt("inject") : i < j /\ trace[i].arg = "Ok"
    /\ (\E i \in OpsAt("inject") : trace[i].arg = "Err")
           => pc = "exit" /\ out = <<MsgConflict>> /\ ~Called("validate")
    /\ ~(Printed("conflict") /\ Printed("invalid"))

\* scenario S4: the assignment contradicts a unit clause
C5_Witness ==
    /\ pc = "exit"
    /\ out = <<MsgConflict>>
    /\ \E i \in OpsAt("inject") : trace[i].arg = "Err"

----------------------------------------------------------------------------
(* C6 *)

\* C6: standard input is never read while or after a file opened; a run
\* whose File::open failed has read standard input by its end; the valid
\* verdict names the opened path exactly when a file opened, and is
\* path-less exactly when the assignment came from standard input.
C6_SourceExclusive ==
    /\ OpenedOk => reads["stdin"] = 0
    /\ (Terminal /\ Called("open") /\ ~OpenedOk)
           => reads["stdin"] > 0 /\ reads["file"] = 0
    /\ \A m \in DOMAIN out :
           /\ out[m].k = "valid_file" =>
                  /\ OpenedOk /\ reads["file"] > 0
                  /\ out[m].path \in fs
                  /\ \E i \in OpsAt("open") : trace[i].arg = out[m].path
           /\ out[m].k = "valid" => ~OpenedOk /\ reads["stdin"] > 0

\* a valid verdict from a file while standard input held an assignment
C6_Witness ==
    /\ pc = "exit"
    /\ Printed("valid_file")
    /\ stdinLines # <<>>
    /\ reads["stdin"] = 0

----------------------------------------------------------------------------
(* C7 *)

\* a `v ` line with a token that is no integer
BadTokenLine(l) ==
    IsValue(l) /\ \E t \in 1..Len(TokensOf(l)) : ~IsInt(TokensOf(l)[t])
\* a `v ` line with a token that is no i32 ahead of its first 0 token
BadTokenBeforeZero(l) ==
    IsValue(l) /\ \E t \in 1..ZeroFree(TokensOf(l)) : ~IsInt(TokensOf(l)[t])
\* a status line that is neither `s SATISFIABLE` nor `s UNSATISFIABLE`
UnknownStatus(l) == IsStatus(l) /\ ~IsSat(l) /\ ~IsUnsat(l)
\* a line that is no comment, no status line and no `v ` line
OtherShape(l) == ValidUtf8(l) /\ ~IsComment(l) /\ ~IsStatus(l) /\ ~IsValue(l)

\* the reader met a line that read_line could not decode (an I/O error)
ReadErrorMet ==
    \E src \in Sources : StoppedAt(src) /\ ~ValidUtf8(LastLine(src))

\* the parse errors as the claim lists them
ParseErrorClaimed ==
    \E src \in Sources :
        StoppedAt(src) /\ (\/ BadTokenLine(LastLine(src))
                           \/ UnknownStatus(LastLine(src))
                           \/ OtherShape(LastLine(src)))

\* the parse errors that abort the run
ParseErrorFatal ==
    \E src \in Sources :
        StoppedAt(src) /\ (\/ BadTokenBeforeZero(LastLine(src))
                           \/ OtherShape(LastLine(src)))

NoVerdictWork == out = <<>> /\ ~Called("inject") /\ ~Called("validate")

\* C7 as claimed: once the assignment source is attempted, every parse
\* error, an unrecognised `s ...` line included, aborts the run with
\* nothing printed and no library call, and every other run, I/O errors
\* aside, ends normally.
C7_ParseErrorsFatal ==
    (Terminal /\ Called("open")) =>
        /\ (ParseErrorClaimed \/ ReadErrorMet) <=> pc = "panicked"
        /\ pc = "panicked" => NoVerdictWork

\* C7 as amended: once the assignment source is attempted (the options
\* parsed and the problem loaded), the run aborts exactly on a token that is no i32 ahead of
\* the first 0 of the `v ` line read, and on a line that is no comment, no
\* `s ` line and no `v ` line; nothing is printed and no library call is
\* made.  An unrecognised `s ...` line prints the illegal-format line and
\* main returns normally without a library call.  Every other run, I/O
\* errors aside, ends normally.
C7_FatalParseErrors ==
    (Terminal /\ Called("open")) =>
        /\ (ParseErrorFatal \/ ReadErrorMet) <=> pc = "panicked"
        /\ pc = "panicked" => NoVerdictWork
        /\ \A src \in Sources :
               (StoppedAt(src) /\ UnknownStatus(LastLine(src))) =>
                   /\ pc = "exit"
                   /\ out = <<MsgIllegalFormat(Unwrap(args_assign))>>
                   /\ ~Called("inject") /\ ~Called("validate")

\* an unrecognised status line on standard input: reported, not fatal
C7_Witness ==
    /\ pc = "exit"
    /\ Called("open")
    /\ StoppedAt("stdin") /\ UnknownStatus(LastLine("stdin"))
    /\ out = <<MsgIllegalFormat(DefaultPath)>>

----------------------------------------------------------------------------
(* C8 *)

OutcomeKinds ==
    {"valid_file", "valid", "invalid", "conflict", "unsat_claimed",
     "illegal_format", "no_assign_file"}

\* the outcome lines printed so far
OutcomeLines == {i \in DOMAIN out : out[i].k \in OutcomeKinds}
\* the run printed the help or the version text
HelpOrVersion == Printed("help") \/ Printed("version")

\* C8 as claimed: at most one outcome line is ever printed, and every run
\* that returns normally has printed exactly one.
C8_OneOutcome ==
    /\ Cardinality(OutcomeLines) <= 1
    /\ pc = "exit" => Cardinality(OutcomeLines) = 1

\* C8 as amended: at most one outcome line is ever printed; a run that
\* returns normally has printed exactly one and nothing else, unless the
\* command line asks for the help or the version: that run prints the help
\* or version text, exits normally with no outcome line, and opens and
\* reads nothing.
C8_OneOutcomeUnlessHelp ==
    /\ Cardinality(OutcomeLines) <= 1
    /\ (pc = "exit" /\ ~HelpOrVersion)
           => Len(out) = 1 /\ Cardinality(OutcomeLines) = 1
    /\ HelpOrVersion =>
           /\ pc = "exit"
           /\ out \in {<<MsgHelp>>, <<MsgVersion>>}
           /\ trace = <<>>
           /\ inject_from_args(argv, fs).status \in {"help", "version"}
    /\ (Terminal /\ inject_from_args(argv, fs).status \in {"help", "version"})
           => HelpOrVersion

\* `dmcr -h p.cnf` over: the help text and no outcome line
C8_Witness ==
    /\ pc = "exit"
    /\ argv = <<ProgPath, "-h", CnfPath>>
    /\ out = <<MsgHelp>>
    /\ OutcomeLines = {}

----------------------------------------------------------------------------
(* C9 *)

\* line i is the first `v ` line that holds a literal
FirstLiteralLine(stream, i) ==
    /\ IsValue(stream[i]) /\ ZeroFree(TokensOf(stream[i])) > 0
    /\ \A j \in 1..(i - 1) :
           ~(IsValue(stream[j]) /\ ZeroFree(TokensOf(stream[j])) > 0)

\* C9 as claimed: read_assignment returns at the first `v ` line that holds
\* a literal, with that line's tokens before its first 0.
C9_ReturnsAtFirstLiteralLine ==
    (pc = "returned" /\ IsSome(ret)) =>
        \A i \in 1..Len(stdinLines) :
            FirstLiteralLine(stdinLines, i) =>
                /\ reads["stdin"] = i
                /\ Unwrap(ret) = BeforeZero(TokensOf(stdinLines[i]))

\* line i is the first `v ` line, after comments and `s SATISFIABLE` lines
\* only, and its tokens before the first 0 are integers
FirstValueLine(stream, i) ==
    /\ IsValue(stream[i])
    /\ Skipped(stream, i)
    /\ ~BadTokenBeforeZero(stream[i])

\* C9 as amended: read_assignment returns at the first `v ` line, whether
\* or not it holds a literal: the result is that line's tokens before its
\* first 0 (all of them without a 0, none for `v 0`), tokens after the 0
\* are not parsed, and no later line is read.
C9_ReturnsAtFirstValueLine ==
    /\ pc # "read_assignment" =>
           \A i \in 1..Len(stdinLines) :
               FirstValueLine(stdinLines, i) =>
                   /\ pc = "returned"
                   /\ reads["stdin"] = i
                   /\ ret = Some(BeforeZero(TokensOf(stdinLines[i])))
    /\ (pc = "returned" /\ IsSome(ret) /\ StoppedAt("stdin")) =>
           FirstValueLine(stdinLines, reads["stdin"])

\* an unterminated `v ` line is returned and the line after it is not read
C9_Witness ==
    /\ pc = "returned"
    /\ stdinLines = <<L_comment, L_v_m1_m2, L_v_1_m2_0>>
    /\ ret = Some(<<-1, -2>>)
    /\ reads["stdin"] = 2

----------------------------------------------------------------------------
(* C10 *)

\* the first read of standard input, in the trace
FirstStdinRead(i) ==
    /\ i \in OpsAt("read_line") /\ trace[i].arg = "stdin"
    /\ \A j \in 1..(i - 1) : ~(trace[j].op = "read_line" /\ trace[j].arg = "stdin")

\* C10 as claimed: with an explicit -a path that cannot be opened, the
\* default path is attempted before standard input is read.
C10_DefaultAfterExplicit ==
    \A r \in DOMAIN trace :
        (FirstStdinRead(r) /\ IsSome(OptA)) =>
            \E i, j \in 1..(r - 1) :
                /\ i < j
                /\ trace[i] = Event("open", Unwrap(OptA))
                /\ trace[j] = Event("open", DefaultPath)

\* C10 as amended: exactly one path is attempted, the -a path when one is
\* given and the default path otherwise, ahead of any read; standard input
\* is read only after that open failed.  The default path is attempted
\* only when no -a path is given.
C10_OnePathThenStdin ==
    /\ Cardinality(OpsAt("open")) <= 1
    /\ \A i \in OpsAt("open") :
           /\ i = 1
           /\ trace[i].arg = IF IsSome(OptA) THEN Unwrap(OptA) ELSE DefaultPath
    /\ (ReachesOpen(argv, fs)
           /\ pc \notin {"inject_from_args", "build", "default_assign", "open"})
           => Called("open")
    /\ Called("open") => ReachesOpen(argv, fs)
    /\ \A r \in DOMAIN trace :
           FirstStdinRead(r) => r = 2 /\ trace[1].op = "open" /\ trace[1].arg \notin fs

\* -a given and missing, the default file present: standard input is read
C10_Witness ==
    /\ pc = "exit"
    /\ OptA = Some(ExplicitPath)
    /\ DefaultPath \in fs /\ ExplicitPath \notin fs
    /\ reads["stdin"] > 0
    /\ trace[1] = Event("open", ExplicitPath)

====
